---- MODULE Spec2Model ----
(***************************************************************************)
(* Model of rivet (botirk38/rivet): the two-turn agent orchestration        *)
(* (src/agent.ts), the interactive refinement loop (src/ui.ts) and the      *)
(* commit / raise-PR commands (both in src/commands/pr.ts).                 *)
(*                                                                         *)
(* Optional values (T | undefined | null) are sequences of length 0 or 1.  *)
(* A text is a sequence of one-character strings; " " is whitespace.       *)
(***************************************************************************)
EXTENDS Integers, Sequences, FiniteSets, TLC

----------------------------------------------------------------------------
(* Bounds *)

MaxTurns == 2

MaxSteps == 2

\* the most regenerate calls one run of the refinement loop makes
MaxRounds == 2

----------------------------------------------------------------------------
(* Optional values and texts *)

Absent == << >>

Some(v) == << v >>

Opt(S) == {Absent} \cup {Some(v) : v \in S}

IsWhitespace(ch) == ch = " "

RECURSIVE TrimStart(_)
TrimStart(s) ==
    IF s = << >> THEN << >>
    ELSE IF IsWhitespace(Head(s)) THEN TrimStart(Tail(s))
    ELSE s

RECURSIVE TrimEnd(_)
TrimEnd(s) ==
    IF s = << >> THEN << >>
    ELSE IF IsWhitespace(s[Len(s)]) THEN TrimEnd(SubSeq(s, 1, Len(s) - 1))
    ELSE s

\* String.prototype.trim
Trim(s) == TrimEnd(TrimStart(s))

\* Array.prototype.reverse on a copy
Reverse(s) == [i \in 1..Len(s) |-> s[Len(s) + 1 - i]]

RECURSIVE Concat(_)
\* flattening of a sequence of sequences (the flattening half of flatMap)
Concat(ss) == IF ss = << >> THEN << >> ELSE Head(ss) \o Concat(Tail(ss))

\* the first element taken whether or not it is empty
FindNonEmptyMutant(texts) == IF texts = << >> THEN Absent ELSE Some(Head(texts))

\* Array.prototype.find: the first element satisfying the test, as an option
RECURSIVE FindNonEmpty(_)
FindNonEmpty(texts) ==
    IF texts = << >> THEN Absent
    ELSE IF Len(Head(texts)) > 0 THEN Some(Head(texts))
    ELSE FindNonEmpty(Tail(texts))

----------------------------------------------------------------------------
(* Conversation structure (src/types.ts ConversationTurn) *)

ConversationTurnType == "agentConversationTurn"

AssistantMessageType == "assistantMessage"

\* step.message?.text
StepText(step) == IF step.message = Absent THEN Absent ELSE step.message[1].text

\* JavaScript truthiness of an optional string: present and of length > 0
TruthyText(optText) == optText # Absent /\ optText[1] # << >>

\* turn.type === "agentConversationTurn" && turn.turn?.steps ? [...steps].reverse() : []
TurnStepsReversed(turn) ==
    IF /\ turn.type = ConversationTurnType
       /\ turn.turn # Absent
       /\ turn.turn[1].steps # Absent
    THEN Reverse(turn.turn[1].steps[1])
    ELSE << >>

\* .filter(step => step?.type === "assistantMessage" && step.message?.text)
IsAssistantText(step) ==
    step.type = AssistantMessageType /\ TruthyText(StepText(step))

\* the traversal order of extractLastAssistantMessage: turns newest first
ExtractTraversalMutant(conversation) == conversation

ExtractTraversal(conversation) == Reverse(conversation)

\* the turns reversed in place, each step list too
ConversationAfterExtractMutant(conv) ==
    Reverse([i \in 1..Len(conv) |->
               IF conv[i].turn # Absent /\ conv[i].turn[1].steps # Absent
               THEN [conv[i] EXCEPT !.turn =
                        Some([steps |-> Some(Reverse(conv[i].turn[1].steps[1]))])]
               ELSE conv[i]])

\* [...conversation].reverse() and [...turn.turn.steps].reverse() reverse
\* copies: the arrays passed in are as they were
ConversationAfterExtract(conv) == conv

extractLastAssistantMessage(conversation) ==
    LET reversed == ExtractTraversal(conversation)
        flat     == Concat([i \in 1..Len(reversed) |-> TurnStepsReversed(reversed[i])])
        filtered == SelectSeq(flat, IsAssistantText)
        mapped   == [i \in 1..Len(filtered) |-> Trim(StepText(filtered[i])[1])]
    IN  FindNonEmpty(mapped)

----------------------------------------------------------------------------
(* Inputs of the extractor *)

ExtractorTexts == { << >>, << " " >>, << "a" >>, << " ", "b", " " >> }

AssistantSteps ==
    [type : {AssistantMessageType},
     message : {Absent, Some([text |-> Absent])}
               \cup {Some([text |-> Some(t)]) : t \in ExtractorTexts}]

OtherSteps == {[type |-> "toolCall", message |-> Some([text |-> Some(<< "a" >>)])]}

ExtractorSteps == AssistantSteps \cup OtherSteps

SeqsUpTo(S, n) == UNION {[1..k -> S] : k \in 0..n}

TurnPayloads ==
    {Absent, Some([steps |-> Absent])}
    \cup {Some([steps |-> Some(ss)]) : ss \in SeqsUpTo(ExtractorSteps, MaxSteps)}

OtherTurnPayloads ==
    {Absent,
     Some([steps |-> Some(<< [type |-> AssistantMessageType,
                              message |-> Some([text |-> Some(<< "a" >>)])] >>)])}

ExtractorTurns ==
    [type : {ConversationTurnType}, turn : TurnPayloads]
    \cup [type : {"userTurn"}, turn : OtherTurnPayloads]

ExtractorConversations == SeqsUpTo(ExtractorTurns, MaxTurns)

----------------------------------------------------------------------------
VARIABLES
    conversation,   \* the ConversationTurn[] handed to the extractor
    extracted,      \* the extractor's return value (an option)
    xpc             \* "input" before the call, "done" after it

xvars == << conversation, extracted, xpc >>

VARIABLES
    rpc,              \* position in replLoop: "idle", "confirm", "feedback",
                      \* "regenerate", "returned", "threw"
    initialValue,     \* replLoop argument
    skipConfirmation, \* replLoop argument
    currentValue,     \* let currentValue
    replReturn,       \* the resolved { accepted, value }, as an option
    displayCount,     \* number of options.display calls
    lastDisplayed,    \* the value last passed to options.display, as an option
    confirmAsked,     \* number of confirmation prompts asked
    feedbackAsked,    \* number of feedback prompts asked
    regenCalls,       \* number of options.regenerate calls
    regenResult,      \* what the last completed regenerate returned: Absent
                      \* before any, Some(Absent) for null, Some(Some(v))
    lastRegenerated,  \* the last non-null regenerate result, as an option
    spinner,          \* "none", "started", "succeed", "fail"
    lastAccept,       \* the latest confirmation answer, as an option
    lastFeedback,     \* the latest feedback answer, as an option
    interrupted       \* TRUE once a confirmation or feedback prompt rejected

rvars == << rpc, initialValue, skipConfirmation, currentValue, replReturn,
            displayCount, lastDisplayed, confirmAsked, feedbackAsked,
            regenCalls, regenResult, lastRegenerated, spinner, lastAccept,
            lastFeedback, interrupted >>

\* the variables of rvars that only replLoop writes
replvars == << rpc, initialValue, skipConfirmation, currentValue, replReturn,
               displayCount, lastDisplayed, regenResult, lastRegenerated,
               spinner >>

VARIABLES
    envKey,         \* process.env.CURSOR_API_KEY, as an option
    configKey,      \* config?.apiKey, as an option
    sessions,       \* the CursorAgent objects created, oldest first
    agent,          \* const agent of the command: index of the generation session, 0 before
    submissions,    \* agent.submit calls so far: [session, kind, settled]
    pending,        \* the submission awaited: "none", "analysis", "generation", "regeneration"
    agentConv,      \* the conversation the pending exchange completes with
    stepsFired,     \* onStep callbacks delivered for the pending exchange
    deltaIdx,       \* text-delta fragments produced for the pending exchange
    stderrWrite     \* process.stderr.write: "original" or "suppressed"

avars == << envKey, configKey, sessions, agent, submissions, pending,
            agentConv, stepsFired, deltaIdx, stderrWrite >>

VARIABLES
    cmd,              \* the command invoked: "commit" or "pr"
    yes,              \* options.yes of the invoked command
    nested,           \* TRUE while raisePRCommand runs commitCommand (lines 67-70)
    nestedOutcome,    \* how the nested commitCommand returned: "none", "done", "cancelled"
    pc,               \* position of the running command
    fatal,            \* "none", or the error that ended the process with exit code 1
    summary,          \* let summary (analyzeChanges)
    captured,         \* the onStep capture of the generation session's exchange:
                      \* commitMessage / newMessage (commit), responseText / text (pr)
    streamedMessage,  \* streamedMessage / streamedNewMessage (commit)
    finalMessage,     \* let finalMessage (commit)
    accepted,         \* let accepted (commit)
    commitCalls,      \* createCommit calls
    commitsCreated,   \* createCommit calls that succeeded
    pushAsked,        \* "Push to remote?" prompts asked
    pushCalls,        \* pushToRemote attempts
    pushed,           \* pushToRemote attempts that succeeded
    prCalls,          \* gh pr create calls
    prCreated         \* gh pr create calls that succeeded

cvars == << cmd, yes, nested, nestedOutcome, pc, fatal, summary, captured,
            streamedMessage, finalMessage, accepted, commitCalls,
            commitsCreated, pushAsked, pushCalls, pushed, prCalls, prCreated >>

\* the effects on git and GitHub
gitvars == << commitCalls, commitsCreated, pushAsked, pushCalls, pushed, prCalls,
             prCreated >>

\* the prompt counters of rvars, shared by replLoop and commitCommand's inline loop
promptvars == << confirmAsked, feedbackAsked, regenCalls, lastAccept, lastFeedback,
                interrupted >>

VARIABLES
    jsonInput,      \* a response text handed to JSON recovery
    jsonText,       \* const jsonText = extractJson(responseText), as an option
    prError,        \* the error the parsing of jsonText ends with, or "none"
    prData,         \* let prData once it passed the title/body test, as an option
    jpc             \* "idle", or "input", "recovered", "validated"

jvars == << jsonInput, jsonText, prError, prData, jpc >>

vars == << xvars, rvars, avars, cvars, jvars >>

\* no command running: the state of the agent and command variables in the
\* specifications of the extractor and of replLoop alone
NoCommand ==
    /\ envKey = Absent
    /\ configKey = Absent
    /\ sessions = << >>
    /\ agent = 0
    /\ submissions = << >>
    /\ pending = "none"
    /\ agentConv = << >>
    /\ stepsFired = 0
    /\ deltaIdx = 0
    /\ stderrWrite = "original"
    /\ cmd = "none"
    /\ yes = FALSE
    /\ nested = FALSE
    /\ nestedOutcome = "none"
    /\ pc = "none"
    /\ fatal = "none"
    /\ summary = << >>
    /\ captured = << >>
    /\ streamedMessage = << >>
    /\ finalMessage = << >>
    /\ accepted = FALSE
    /\ commitCalls = 0
    /\ commitsCreated = 0
    /\ pushAsked = 0
    /\ pushCalls = 0
    /\ pushed = 0
    /\ prCalls = 0
    /\ prCreated = 0

\* replLoop not called
ReplIdle ==
    /\ rpc = "idle"
    /\ currentValue = initialValue
    /\ replReturn = Absent
    /\ displayCount = 0
    /\ lastDisplayed = Absent
    /\ confirmAsked = 0
    /\ feedbackAsked = 0
    /\ regenCalls = 0
    /\ regenResult = Absent
    /\ lastRegenerated = Absent
    /\ spinner = "none"
    /\ lastAccept = Absent
    /\ lastFeedback = Absent
    /\ interrupted = FALSE

\* no response text under JSON recovery
JsonIdle ==
    /\ jsonInput = << >>
    /\ jsonText = Absent
    /\ prError = "none"
    /\ prData = Absent
    /\ jpc = "idle"

ExtractInit ==
    /\ conversation \in ExtractorConversations
    /\ extracted = Absent
    /\ xpc = "input"
    /\ initialValue = "V1"
    /\ skipConfirmation = FALSE
    /\ ReplIdle
    /\ NoCommand
    /\ JsonIdle

CallExtract ==
    /\ xpc = "input"
    /\ extracted' = extractLastAssistantMessage(conversation)
    /\ xpc' = "done"
    /\ conversation' = ConversationAfterExtract(conversation)
    /\ UNCHANGED << rvars, avars, cvars, jvars >>

ExtractNext == CallExtract

SpecExtract == ExtractInit /\ [][ExtractNext]_vars

----------------------------------------------------------------------------
(* C1 *)

\* step j of turn i is an assistant-message step of a conversation turn whose
\* text is non-empty after trimming
Qualifies(conv, i, j) ==
    /\ i \in 1..Len(conv)
    /\ conv[i].type = ConversationTurnType
    /\ conv[i].turn # Absent
    /\ conv[i].turn[1].steps # Absent
    /\ j \in 1..Len(conv[i].turn[1].steps[1])
    /\ LET step == conv[i].turn[1].steps[1][j]
       IN  /\ step.type = AssistantMessageType
           /\ step.message # Absent
           /\ step.message[1].text # Absent
           /\ Trim(step.message[1].text[1]) # << >>

QualifyingPositions(conv) ==
    {p \in (1..MaxTurns + 1) \X (1..MaxSteps + 1) : Qualifies(conv, p[1], p[2])}

Later(p, q) == p[1] > q[1] \/ (p[1] = q[1] /\ p[2] > q[2])

\* C1: the extractor returns the trimmed text of the last qualifying step of
\* the last turn that has one, and absence when no step qualifies; turns of
\* another kind and steps of another kind never contribute.
C1_ExtractorReturnsLastAssistantText ==
    xpc = "done" =>
        LET Q == QualifyingPositions(conversation)
        IN  IF Q = {} THEN extracted = Absent
            ELSE \E p \in Q :
                    /\ \A q \in Q : ~Later(q, p)
                    /\ extracted =
                         Some(Trim(conversation[p[1]].turn[1].steps[1][p[2]].message[1].text[1]))

\* an earlier turn and a later turn both qualify, with different texts, and
\* the extractor has answered
C1_Witness ==
    /\ xpc = "done"
    /\ Len(conversation) = 2
    /\ \E p, q \in QualifyingPositions(conversation) :
          /\ p[1] = 1 /\ q[1] = 2
          /\ conversation[1].turn[1].steps[1][p[2]].message[1].text[1]
               # conversation[2].turn[1].steps[1][q[2]].message[1].text[1]
    /\ extracted # Absent

----------------------------------------------------------------------------
(* The refinement loop: replLoop (src/ui.ts) *)

ReplValues == {"V1", "V2", "V3"}

FeedbackTexts == { << >>, << " " >>, << " ", "s" >> }

\* replLoop with the skipConfirmation test left out
ReplLoopTopNoSkip(value, skip) ==
    /\ displayCount' = displayCount + 1
    /\ lastDisplayed' = Some(value)
    /\ rpc' = "confirm"
    /\ confirmAsked' = confirmAsked + 1
    /\ UNCHANGED replReturn

\* replLoop giving up after its second display
ReplLoopTopBounded(value, skip) ==
    /\ displayCount' = displayCount + 1
    /\ lastDisplayed' = Some(value)
    /\ IF skip \/ displayCount >= 1
       THEN /\ rpc' = "returned"
            /\ replReturn' = Some([accepted |-> TRUE, value |-> value])
            /\ UNCHANGED confirmAsked
       ELSE /\ rpc' = "confirm"
            /\ confirmAsked' = confirmAsked + 1
            /\ UNCHANGED replReturn

\* the head of the while loop up to its first await: display the current
\* value, then return when skipConfirmation, else ask the confirmation prompt
ReplLoopTop(value, skip) ==
    /\ displayCount' = displayCount + 1
    /\ lastDisplayed' = Some(value)
    /\ IF skip
       THEN /\ rpc' = "returned"
            /\ replReturn' = Some([accepted |-> TRUE, value |-> value])
            /\ UNCHANGED confirmAsked
       ELSE /\ rpc' = "confirm"
            /\ confirmAsked' = confirmAsked + 1
            /\ UNCHANGED replReturn

\* replLoop(initial, options, skip) is called
ReplCall(initial, skip) ==
    /\ rpc = "idle"
    /\ initialValue' = initial
    /\ skipConfirmation' = skip
    /\ currentValue' = initial
    /\ ReplLoopTop(initial, skip)
    /\ UNCHANGED << feedbackAsked, regenCalls, regenResult, lastRegenerated,
                    spinner, lastAccept, lastFeedback, interrupted >>

\* what replLoop returns when the user accepts
ReplAcceptedValueMutant == initialValue

ReplAcceptedValue == currentValue

\* the confirmation prompt resolves with { accept }
ReplConfirmAnswer(accept) ==
    /\ rpc = "confirm"
    /\ lastAccept' = Some(accept)
    /\ IF accept
       THEN /\ rpc' = "returned"
            /\ replReturn' = Some([accepted |-> TRUE, value |-> ReplAcceptedValue])
            /\ UNCHANGED feedbackAsked
       ELSE /\ rpc' = "feedback"
            /\ feedbackAsked' = feedbackAsked + 1
            /\ UNCHANGED replReturn
    /\ UNCHANGED << initialValue, skipConfirmation, currentValue, displayCount,
                    lastDisplayed, confirmAsked, regenCalls, regenResult,
                    lastRegenerated, spinner, lastFeedback, interrupted >>

\* a prompt rejects (the user interrupts it): replLoop has no handler, the
\* rejection leaves replLoop
ReplPromptFails ==
    /\ rpc \in {"confirm", "feedback"}
    /\ rpc' = "threw"
    /\ interrupted' = TRUE
    /\ UNCHANGED << initialValue, skipConfirmation, currentValue, replReturn,
                    displayCount, lastDisplayed, confirmAsked, feedbackAsked,
                    regenCalls, regenResult, lastRegenerated, spinner,
                    lastAccept, lastFeedback >>

\* if (!feedback.trim())
ReplIsCancelMutant(feedback) == feedback = << >>

ReplIsCancel(feedback) == Trim(feedback) = << >>

\* the feedback prompt resolves with { feedback }
ReplFeedbackAnswer(feedback) ==
    /\ rpc = "feedback"
    /\ lastFeedback' = Some(feedback)
    /\ IF ReplIsCancel(feedback)
       THEN /\ rpc' = "returned"
            /\ replReturn' = Some([accepted |-> FALSE, value |-> currentValue])
            /\ UNCHANGED << spinner, regenCalls >>
       ELSE /\ regenCalls < MaxRounds
            /\ rpc' = "regenerate"
            /\ spinner' = "started"
            /\ regenCalls' = regenCalls + 1
            /\ UNCHANGED replReturn
    /\ UNCHANGED << initialValue, skipConfirmation, currentValue, displayCount,
                    lastDisplayed, confirmAsked, feedbackAsked, regenResult,
                    lastRegenerated, lastAccept, interrupted >>

\* the value the loop holds after regenerate returned newValue (an option)
ReplValueAfterMutant(newValue) == IF newValue # Absent THEN newValue[1] ELSE initialValue

ReplValueAfter(newValue) == IF newValue # Absent THEN newValue[1] ELSE currentValue

\* options.regenerate resolves with newValue (Absent for null); the loop goes
\* round: display, confirmation prompt
ReplRegenerateReturns(newValue) ==
    /\ rpc = "regenerate"
    /\ regenResult' = Some(newValue)
    /\ currentValue' = ReplValueAfter(newValue)
    /\ spinner' = IF newValue # Absent THEN "succeed" ELSE "fail"
    /\ lastRegenerated' = IF newValue # Absent THEN newValue ELSE lastRegenerated
    /\ ReplLoopTop(ReplValueAfter(newValue), skipConfirmation)
    /\ UNCHANGED << initialValue, skipConfirmation, feedbackAsked, regenCalls,
                    lastAccept, lastFeedback, interrupted >>

\* options.regenerate rejects: the rejection leaves replLoop
ReplRegenerateThrows ==
    /\ rpc = "regenerate"
    /\ rpc' = "threw"
    /\ UNCHANGED << initialValue, skipConfirmation, currentValue, replReturn,
                    displayCount, lastDisplayed, confirmAsked, feedbackAsked,
                    regenCalls, regenResult, lastRegenerated, spinner,
                    lastAccept, lastFeedback, interrupted >>

ReplInit ==
    /\ conversation = << >>
    /\ extracted = Absent
    /\ xpc = "done"
    /\ initialValue \in ReplValues
    /\ skipConfirmation \in BOOLEAN
    /\ ReplIdle
    /\ NoCommand
    /\ JsonIdle

ReplStart == ReplCall(initialValue, skipConfirmation) /\ UNCHANGED << jvars, xvars, avars, cvars >>

ReplConfirm == \E accept \in BOOLEAN : ReplConfirmAnswer(accept) /\ UNCHANGED << jvars, xvars, avars, cvars >>

ReplInterrupt == ReplPromptFails /\ UNCHANGED << jvars, xvars, avars, cvars >>

ReplFeedback == \E feedback \in FeedbackTexts : ReplFeedbackAnswer(feedback) /\ UNCHANGED << jvars, xvars, avars, cvars >>

ReplRegenerated == \E newValue \in Opt(ReplValues) : ReplRegenerateReturns(newValue) /\ UNCHANGED << jvars, xvars, avars, cvars >>

ReplRegenerateFailed == ReplRegenerateThrows /\ UNCHANGED << jvars, xvars, avars, cvars >>

ReplNext ==
    \/ ReplStart
    \/ ReplConfirm
    \/ ReplInterrupt
    \/ ReplFeedback
    \/ ReplRegenerated
    \/ ReplRegenerateFailed

SpecRepl == ReplInit /\ [][ReplNext]_vars

----------------------------------------------------------------------------
(* C2 .. C6: the refinement loop *)

\* the value the loop must hold: the last regenerate result that was a
\* value, or the initial value
ExpectedCurrent ==
    IF lastRegenerated = Absent THEN initialValue ELSE lastRegenerated[1]

\* a step in which regenerate returned (a value or null)
RegenerateReturned == rpc = "regenerate" /\ rpc' \notin {"regenerate", "threw"}

\* C2: an accepted return carries the most recent regenerate result that was
\* a value, or the initial value when there is none; the current value only
\* ever changes to the result of the regenerate call that just returned.
C2_AcceptedValueIsLatestRegenerated ==
    /\ [](replReturn # Absent /\ replReturn[1].accepted
            => replReturn[1].value = ExpectedCurrent)
    /\ [][currentValue' # currentValue
            => RegenerateReturned /\ regenResult' = Some(Some(currentValue'))]_vars

\* accepted after a successful regeneration followed by a failed one
C2_Witness ==
    /\ rpc = "returned"
    /\ replReturn[1].accepted
    /\ regenCalls = 2
    /\ regenResult = Some(Absent)
    /\ lastRegenerated # Absent
    /\ replReturn[1].value # initialValue

\* C3: when regenerate returns null the current value is unchanged, the
\* failure notice is shown, the unchanged value is displayed again and the
\* confirmation prompt is asked again; the loop neither returns nor throws.
C3_NullRegenerationKeepsValueAndReprompts ==
    [][RegenerateReturned /\ regenResult' = Some(Absent)
        => /\ currentValue' = currentValue
           /\ spinner' = "fail"
           /\ displayCount' = displayCount + 1
           /\ lastDisplayed' = Some(currentValue)
           /\ confirmAsked' = confirmAsked + 1
           /\ rpc' = "confirm"
           /\ replReturn' = Absent]_vars

\* a regenerated value survived a later failed regeneration and the user is
\* asked again
C3_Witness ==
    /\ rpc = "confirm"
    /\ regenResult = Some(Absent)
    /\ spinner = "fail"
    /\ lastRegenerated # Absent
    /\ currentValue # initialValue
    /\ lastDisplayed = Some(currentValue)

\* a step in which the feedback prompt was answered
FeedbackAnswered == rpc = "feedback" /\ rpc' \notin {"feedback", "threw"}

\* C4: empty or whitespace-only feedback ends the loop with accepted = FALSE
\* and the current value, without a regenerate call for that feedback.
C4_EmptyFeedbackCancels ==
    [][FeedbackAnswered /\ Trim(lastFeedback'[1]) = << >>
        => /\ rpc' = "returned"
           /\ replReturn' = Some([accepted |-> FALSE, value |-> currentValue])
           /\ currentValue = ExpectedCurrent
           /\ regenCalls' = regenCalls]_vars

\* cancelled by whitespace-only feedback in a later iteration
C4_Witness ==
    /\ rpc = "returned"
    /\ ~replReturn[1].accepted
    /\ lastFeedback = Some(<< " " >>)
    /\ regenCalls >= 1
    /\ replReturn[1].value # initialValue

\* C5: with skipConfirmation the loop displays the initial value once and
\* returns it accepted, with no prompt and no regenerate call.
C5_AutoAcceptReturnsInitial ==
    skipConfirmation /\ rpc # "idle"
        => /\ rpc = "returned"
           /\ replReturn = Some([accepted |-> TRUE, value |-> initialValue])
           /\ displayCount = 1
           /\ lastDisplayed = Some(initialValue)
           /\ confirmAsked = 0
           /\ feedbackAsked = 0
           /\ regenCalls = 0

C5_Witness == skipConfirmation /\ rpc = "returned" /\ displayCount = 1

\* C6: the loop returns only when skipConfirmation is set, the latest
\* confirmation answer was yes, or the latest feedback was empty after
\* trimming; after every round of rejection, non-empty feedback and
\* regeneration (successful or not) it is still running and prompts again.
C6_ReturnsOnlyOnAcceptOrCancel ==
    /\ [](rpc = "returned"
            => \/ skipConfirmation
               \/ lastAccept = Some(TRUE)
               \/ /\ lastAccept = Some(FALSE)
                  /\ lastFeedback # Absent
                  /\ Trim(lastFeedback[1]) = << >>)
    /\ [][RegenerateReturned
            => rpc' = "confirm" /\ confirmAsked' = confirmAsked + 1]_vars

\* still prompting after as many rounds as the model allows
C6_Witness ==
    /\ rpc = "confirm"
    /\ regenCalls = MaxRounds
    /\ confirmAsked = MaxRounds + 1
    /\ regenResult # Absent

----------------------------------------------------------------------------
(* The agent exchanges the commands await *)

AStep(text) == [type |-> AssistantMessageType, message |-> Some([text |-> Some(text)])]

ToolStep == [type |-> "toolCall", message |-> Absent]

Turn(steps) == [type |-> ConversationTurnType, turn |-> Some([steps |-> Some(steps)])]

\* conversations an analysis exchange or a commit-message exchange ends with
TextConversations ==
    { << >>,
      << Turn(<< AStep(<< "m" >>) >>) >>,
      << Turn(<< ToolStep, AStep(<< " ", "n" >>) >>) >>,
      << Turn(<< AStep(<< "m" >>), AStep(<< " " >>) >>) >>,
      << Turn(<< AStep(<< "m", "n" >>) >>) >> }

\* response texts of a PR-content exchange, as tokens: "FENCE" a code fence (three backticks), "t1",
\* "t2", "t0" a title member (t0: empty title), "b1" a body member, "l1" a
\* labels member, "x" prose, "null" the JSON literal
PrTexts ==
    { << "FENCE", "json", " ", "{", "t1", "b1", "l1", "}", " ", "FENCE" >>,
      << "x", "{", "t2", "b1", "}", "x" >>,
      << "{", "t1", "}" >>,
      << "x" >>,
      << "null" >> }

PrConversations == { << >> } \cup { << Turn(<< AStep(t) >>) >> : t \in PrTexts }

\* the command whose code is running
Running == IF nested THEN "commit" ELSE cmd

\* options.yes of the running command (the nested commit is called with yes: false)
RunningYes == IF nested THEN FALSE ELSE yes

\* the steps of an exchange in completion order, one onStep callback each
AgentSteps(conv) ==
    Concat([i \in 1..Len(conv) |->
              IF conv[i].turn # Absent /\ conv[i].turn[1].steps # Absent
              THEN conv[i].turn[1].steps[1] ELSE << >>])

\* the raw text the exchange streams as text-delta fragments, one character each
DeltaText(conv) ==
    LET steps == SelectSeq(AgentSteps(conv),
                           LAMBDA st : st.type = AssistantMessageType /\ StepText(st) # Absent)
    IN  Concat([i \in 1..Len(steps) |-> StepText(steps[i])[1]])

\* the onStep handlers: if (step.type === "assistantMessage") { if (msg?.text) x = msg.text.trim() }
StepCapture(old, step) ==
    IF step.type = AssistantMessageType /\ TruthyText(StepText(step))
    THEN Trim(StepText(step)[1])
    ELSE old

\* a key made up when neither source has one
ApiKeyMutant == IF envKey # Absent THEN envKey ELSE Some("config-key")

\* process.env.CURSOR_API_KEY || config?.apiKey
ApiKey == IF envKey # Absent THEN envKey ELSE configKey

\* a || b on texts
OrElse(a, b) == IF a # << >> THEN a ELSE b

\* text || extractLastAssistantMessage(convo) || "" : an option falls through when null
OrElseOpt(a, optB) == IF a # << >> THEN a ELSE IF optB # Absent THEN optB[1] ELSE << >>

----------------------------------------------------------------------------
(* JSON recovery and deserialization of the PR payload (src/commands/pr.ts) *)

Fence == "FENCE"

RECURSIVE SkipWs(_, _)
\* \s* : the first index at or after i that holds no whitespace
SkipWs(text, i) ==
    IF i <= Len(text) /\ IsWhitespace(text[i]) THEN SkipWs(text, i + 1) ELSE i

Min(S) == CHOOSE x \in S : \A y \in S : x <= y

\* a lazy quantifier: the match ends at the first closing brace that fits
MaxMutant(S) == Min(S)

\* the greedy [\s\S]* : the match ends at the last closing brace that fits
Max(S) == CHOOSE x \in S : \A y \in S : y <= x

\* where the captured group starts when the opening fence is at i
GroupStart(text, i) ==
    SkipWs(text, IF i + 1 <= Len(text) /\ text[i + 1] = "json" THEN i + 2 ELSE i + 1)

\* the closing braces that \s* and the closing fence can follow
GroupEnds(text, k) ==
    {e \in (k + 1)..Len(text) :
        /\ text[e] = "}"
        /\ SkipWs(text, e + 1) <= Len(text)
        /\ text[SkipWs(text, e + 1)] = Fence}

\* the code-block regular expression of extractJson: the fences a match starts at
FenceStarts(text) ==
    {i \in 1..Len(text) :
        /\ text[i] = Fence
        /\ GroupStart(text, i) <= Len(text)
        /\ text[GroupStart(text, i)] = "{"
        /\ GroupEnds(text, GroupStart(text, i)) # {}}

\* an empty text returned when nothing matches
DirectMatchFallbackMutant(text) == << >>

\* directMatch?.[0] ?? text, when directMatch is null
DirectMatchFallback(text) == text

extractJson(text) ==
    IF FenceStarts(text) # {}
    THEN LET k == GroupStart(text, Min(FenceStarts(text)))
         IN  SubSeq(text, k, Max(GroupEnds(text, k)))
    ELSE LET opens == {i \in 1..Len(text) : text[i] = "{"}
         IN  IF opens # {} /\ \E e \in (Min(opens) + 1)..Len(text) : text[e] = "}"
             THEN SubSeq(text, Min(opens),
                         Max({e \in (Min(opens) + 1)..Len(text) : text[e] = "}"}))
             ELSE DirectMatchFallback(text)

MemberTokens == {"t0", "t1", "t2", "b1", "l1"}

RECURSIVE ObjectOf(_)
\* the object a member sequence denotes; a repeated key keeps its last value
ObjectOf(members) ==
    IF members = << >> THEN [title |-> Absent, body |-> Absent, labels |-> Absent]
    ELSE LET rest == ObjectOf(SubSeq(members, 1, Len(members) - 1))
             m    == members[Len(members)]
         IN  IF m = "t0" THEN [rest EXCEPT !.title = Some("")]
             ELSE IF m = "t1" THEN [rest EXCEPT !.title = Some("T1")]
             ELSE IF m = "t2" THEN [rest EXCEPT !.title = Some("T2")]
             ELSE IF m = "b1" THEN [rest EXCEPT !.body = Some("B1")]
             ELSE [rest EXCEPT !.labels = Some(<< "bug" >>)]

\* JSON.parse: Absent when it throws, Some(Absent) for null, Some(Some(object))
JsonParse(text) ==
    LET t == SelectSeq(text, LAMBDA ch : ~IsWhitespace(ch))
    IN  IF t = << "null" >> THEN Some(Absent)
        ELSE IF /\ Len(t) >= 2
                /\ t[1] = "{"
                /\ t[Len(t)] = "}"
                /\ \A i \in 2..(Len(t) - 1) : t[i] \in MemberTokens
        THEN Some(Some(ObjectOf(SubSeq(t, 2, Len(t) - 1))))
        ELSE Absent

\* the test without its second operand
MissingTitleOrBodyMutant(obj) == obj.title = Absent \/ obj.title = Some("")

\* !prData.title || !prData.body
MissingTitleOrBody(obj) ==
    \/ obj.title = Absent \/ obj.title = Some("")
    \/ obj.body = Absent \/ obj.body = Some("")

NoPrData == [title |-> Absent, body |-> Absent, labels |-> Absent]

\* an empty labels sequence put in for a missing labels field
AsPrDataMutant(obj) ==
    [obj EXCEPT !.labels = IF obj.labels = Absent THEN Some(<< >>) ELSE obj.labels]

\* prData = JSON.parse(jsonText), return parsed as PrData: the object as
\* parsed, nothing added for a missing field
AsPrData(obj) == obj

\* generatePrContent after its await: the PrData it returns, Absent for null
generatePrContent(text, convo) ==
    LET responseText == OrElseOpt(text, extractLastAssistantMessage(convo))
        parsed       == JsonParse(extractJson(responseText))
    IN  IF responseText = << >> THEN Absent
        ELSE IF parsed = Absent THEN Absent
        ELSE IF parsed[1] = Absent THEN Absent
        ELSE IF MissingTitleOrBody(parsed[1][1]) THEN Absent
        ELSE Some(AsPrData(parsed[1][1]))

----------------------------------------------------------------------------
(* analyzeChanges (src/agent.ts) and the events of a pending exchange *)

\* agent.submit({ message, ... }) on the session-th agent created: one more
\* run whose conversation promise has not settled
\* quoted: the previous content the prompt in flight holds, for a
\* regeneration
Submit(subs, session, kind) ==
    Append(subs, [session |-> session, kind |-> kind, settled |-> FALSE,
                  quoted |-> Absent])

\* agent.submit of a regeneration prompt "The previous ... was: <previous>"
SubmitRegeneration(subs, session, previous) ==
    Append(subs, [session |-> session, kind |-> "regeneration", settled |-> FALSE,
                  quoted |-> Some(previous)])

\* the promise of the latest submission left unsettled
SettleMutant(subs) == subs

\* await result.conversation returns or throws: the run of the latest
\* agent.submit call has completed, its prompt is no longer in flight
Settle(subs) ==
    IF subs = << >> THEN subs
    ELSE [subs EXCEPT ![Len(subs)].settled = TRUE, ![Len(subs)].quoted = Absent]

\* the analysis taken as successful whatever onStep captured
AnalysisSucceededMutant == TRUE

\* if (!summary) throw new Error("Failed to get analysis from agent")
AnalysisSucceeded == summary # << >>

\* the regeneration prompt submitted on the agent created before it, the one
\* of the analysis
RegenerateSessionMutant == agent - 1

\* agent.submit in the regenerate closure and in generatePrContent(agent, ...):
\* const agent of the command, the session of the generation turn
RegenerateSession == agent

\* regenPrompt of commitCommand: "The previous commit message was:
\* ${finalMessage}", the variable the loop assigns after each regeneration
CommitPromptQuotes == finalMessage

\* the prompt of raisePRCommand's regenerate closure: "The previous PR
\* content was: Title: ${prData.title} Body: ${prData.body} Labels: ...",
\* prData being the variable assigned once, before replLoop is called with it
PrPromptQuotes == initialValue

\* the checks before the analysis failed (ok = FALSE: "Not in a git
\* repository", "No changes to commit", "No changes found between ..."), or
\* analyzeChanges runs up to its await: createAgent (process.exit(1) without
\* an API key), submit, process.stderr.write replaced
StartAnalysis(ok, conv) ==
    LET submits == ok /\ ApiKey # Absent
    IN  /\ pc' = IF submits THEN "analyzing" ELSE "exit1"
        /\ fatal' = IF ~ok THEN "precheck" ELSE IF ApiKey = Absent THEN "noKey" ELSE fatal
        /\ sessions' = IF submits THEN Append(sessions, [apiKey |-> ApiKey[1]]) ELSE sessions
        /\ submissions' =
              IF submits
              THEN Submit(submissions, Len(sessions) + 1, "analysis")
              ELSE submissions
        /\ pending' = IF submits THEN "analysis" ELSE pending
        /\ agentConv' = IF submits THEN conv ELSE agentConv
        /\ stepsFired' = IF submits THEN 0 ELSE stepsFired
        /\ deltaIdx' = IF submits THEN 0 ELSE deltaIdx
        /\ stderrWrite' = IF submits THEN "suppressed" ELSE stderrWrite
        /\ summary' = IF submits THEN << >> ELSE summary
        /\ UNCHANGED << jvars, xvars, rvars, envKey, configKey, agent, cmd, yes, nested,
                        nestedOutcome, captured, streamedMessage, finalMessage,
                        accepted, gitvars >>

\* the agent completes a step of the pending exchange and calls onStep
OnStep ==
    /\ pending # "none"
    /\ stepsFired < Len(AgentSteps(agentConv))
    /\ stepsFired' = stepsFired + 1
    /\ summary' = IF pending = "analysis"
                  THEN StepCapture(summary, AgentSteps(agentConv)[stepsFired + 1])
                  ELSE summary
    /\ captured' = IF pending # "analysis"
                   THEN StepCapture(captured, AgentSteps(agentConv)[stepsFired + 1])
                   ELSE captured
    /\ UNCHANGED << jvars, xvars, rvars, envKey, configKey, sessions, agent, submissions,
                    pending, agentConv, deltaIdx, stderrWrite, cmd, yes, nested,
                    nestedOutcome, pc, fatal, streamedMessage, finalMessage,
                    accepted, gitvars >>

\* the fragment put in front of the buffer
AppendFragmentMutant(buffer, fragment) == << fragment >> \o buffer

\* streamedMessage += update.text
AppendFragment(buffer, fragment) == Append(buffer, fragment)

\* the agent produces the next text-delta fragment; onDelta receives it
\* (delivered) or it is dropped. commitCommand appends it to streamedMessage
\* and writes it to stdout, raisePRCommand only refreshes its spinner text.
OnDelta(delivered) ==
    /\ pending \in {"generation", "regeneration"}
    /\ Running = "commit" \/ pending = "generation"
    /\ deltaIdx < Len(DeltaText(agentConv))
    /\ deltaIdx' = deltaIdx + 1
    /\ streamedMessage' =
          IF delivered /\ Running = "commit"
          THEN AppendFragment(streamedMessage, DeltaText(agentConv)[deltaIdx + 1])
          ELSE streamedMessage
    /\ UNCHANGED << jvars, xvars, rvars, envKey, configKey, sessions, agent, submissions,
                    pending, agentConv, stepsFired, stderrWrite, cmd, yes, nested,
                    nestedOutcome, pc, fatal, summary, captured, finalMessage,
                    accepted, gitvars >>

\* await result.conversation resolves in analyzeChanges: stderr restored,
\* "Failed to get analysis from agent" when summary is empty; otherwise the
\* command goes on to the generation turn: createAgent, prompt built from
\* summary, submit with onDelta and onStep, await under withSuppressedStderr
AnalysisResolves(conv) ==
    /\ pending = "analysis"
    /\ LET ok == AnalysisSucceeded
       IN  /\ pc' = IF ok THEN "generating" ELSE "exit1"
           /\ fatal' = IF ok THEN fatal ELSE "analysisEmpty"
           /\ sessions' = IF ok THEN Append(sessions, [apiKey |-> ApiKey[1]]) ELSE sessions
           /\ agent' = IF ok THEN Len(sessions) + 1 ELSE agent
           /\ submissions' =
                 IF ok
                 THEN Submit(Settle(submissions), Len(sessions) + 1, "generation")
                 ELSE Settle(submissions)
           /\ pending' = IF ok THEN "generation" ELSE "none"
           /\ agentConv' = IF ok THEN conv ELSE agentConv
           /\ conv \in (IF Running = "commit" THEN TextConversations ELSE PrConversations)
           /\ stepsFired' = IF ok THEN 0 ELSE stepsFired
           /\ deltaIdx' = IF ok THEN 0 ELSE deltaIdx
           /\ stderrWrite' = IF ok THEN "suppressed" ELSE "original"
           /\ captured' = IF ok THEN << >> ELSE captured
           /\ streamedMessage' = IF ok THEN << >> ELSE streamedMessage
    /\ UNCHANGED << jvars, xvars, rvars, envKey, configKey, cmd, yes, nested,
                    nestedOutcome, summary, finalMessage, accepted, gitvars >>

\* await result.conversation rejects in analyzeChanges: the line that
\* restores process.stderr.write is skipped, the command's catch prints the
\* error and calls process.exit(1)
AnalysisRejects ==
    /\ pending = "analysis"
    /\ pending' = "none"
    /\ submissions' = Settle(submissions)
    /\ pc' = "exit1"
    /\ fatal' = "agentRejected"
    /\ UNCHANGED << jvars, xvars, rvars, envKey, configKey, sessions, agent,
                    agentConv, stepsFired, deltaIdx, stderrWrite, cmd, yes, nested,
                    nestedOutcome, summary, captured, streamedMessage,
                    finalMessage, accepted, gitvars >>

\* the generation exchange rejects: withSuppressedStderr restores stderr in
\* its finally, the command's catch prints the error and calls process.exit(1)
GenerationRejects ==
    /\ pending = "generation"
    /\ pending' = "none"
    /\ submissions' = Settle(submissions)
    /\ stderrWrite' = "original"
    /\ pc' = "exit1"
    /\ fatal' = "agentRejected"
    /\ UNCHANGED << jvars, xvars, rvars, envKey, configKey, sessions, agent,
                    agentConv, stepsFired, deltaIdx, cmd, yes, nested,
                    nestedOutcome, summary, captured, streamedMessage,
                    finalMessage, accepted, gitvars >>

----------------------------------------------------------------------------
(* commitCommand (src/commands/pr.ts, lines 375-646) *)

\* git rev-parse, git status, git add, getStagedStats, getCurrentBranch, then
\* analyzeChanges({ stats, branch }, "commit")
CommitPrechecks(ok, conv) ==
    /\ pc = "c_start"
    /\ conv \in TextConversations
    /\ StartAnalysis(ok, conv)

\* the commit-message exchange resolves: stderr restored, fallback when
\* onStep captured nothing, "Failed to extract commit message" when still
\* empty; otherwise the confirmation loop starts: with options.yes accepted
\* at once and createCommit called, else the confirmation prompt asked
CommitGenerationResolves ==
    /\ pending = "generation"
    /\ Running = "commit"
    /\ LET ext == extractLastAssistantMessage(agentConv)
           msg == IF captured # << >> THEN captured
                  ELSE OrElse(Trim(streamedMessage), OrElseOpt(<< >>, ext))
           ok  == msg # << >>
       IN  /\ pending' = "none"
           /\ submissions' = Settle(submissions)
           /\ stderrWrite' = "original"
           /\ conversation' = agentConv
           /\ extracted' = IF captured = << >> THEN ext ELSE extracted
           /\ captured' = msg
           /\ finalMessage' = IF ok THEN msg ELSE finalMessage
           /\ accepted' = (ok /\ RunningYes)
           /\ pc' = IF ~ok THEN "exit1" ELSE IF RunningYes THEN "committing" ELSE "c_confirm"
           /\ fatal' = IF ok THEN fatal ELSE "generationEmpty"
           /\ commitCalls' = IF ok /\ RunningYes THEN commitCalls + 1 ELSE commitCalls
           /\ confirmAsked' = IF ok /\ ~RunningYes THEN confirmAsked + 1 ELSE confirmAsked
    /\ UNCHANGED << jvars, xpc, replvars, feedbackAsked, regenCalls, lastAccept,
                    lastFeedback, interrupted, envKey, configKey, sessions, agent,
                    agentConv, stepsFired, deltaIdx, cmd, yes, nested,
                    nestedOutcome, summary, streamedMessage, commitsCreated,
                    pushAsked, pushCalls, pushed, prCalls, prCreated >>

\* "Accept this commit message?" resolves: accepted and createCommit called,
\* or the feedback prompt asked
CommitLoopConfirm(accept) ==
    /\ pc = "c_confirm"
    /\ lastAccept' = Some(accept)
    /\ accepted' = accept
    /\ pc' = IF accept THEN "committing" ELSE "c_feedback"
    /\ commitCalls' = IF accept THEN commitCalls + 1 ELSE commitCalls
    /\ feedbackAsked' = IF accept THEN feedbackAsked ELSE feedbackAsked + 1
    /\ UNCHANGED << jvars, xvars, confirmAsked, regenCalls, lastFeedback,
                    interrupted, avars, cmd, yes, nested, nestedOutcome, fatal, summary,
                    captured, streamedMessage, finalMessage, commitsCreated,
                    pushAsked, pushCalls, pushed, prCalls, prCreated >>

\* the same step in a run of the command, which leaves replLoop's variables alone
CommitConfirmAnswer(accept) == CommitLoopConfirm(accept) /\ UNCHANGED replvars

\* a prompt of the confirmation loop rejects: catch (_error) prints
\* "Cancelled. No commit created." and returns
CommitPromptFails ==
    /\ pc \in {"c_confirm", "c_feedback"}
    /\ pc' = "cancelled"
    /\ interrupted' = TRUE
    /\ UNCHANGED << jvars, xvars, replvars, confirmAsked, feedbackAsked, regenCalls,
                    lastAccept, lastFeedback, avars, cmd, yes, nested,
                    nestedOutcome, fatal, summary, captured, streamedMessage,
                    finalMessage, accepted, gitvars >>

\* "How should it be improved?" resolves: empty feedback cancels, otherwise
\* the regeneration prompt is submitted on the same agent
CommitLoopFeedback(feedback, conv) ==
    /\ pc = "c_feedback"
    /\ conv \in TextConversations
    /\ lastFeedback' = Some(feedback)
    /\ LET cancel == Trim(feedback) = << >>
       IN  /\ cancel \/ regenCalls < MaxRounds
           /\ pc' = IF cancel THEN "cancelled" ELSE "c_regenerating"
           /\ regenCalls' = IF cancel THEN regenCalls ELSE regenCalls + 1
           /\ submissions' =
                 IF cancel THEN submissions
                 ELSE SubmitRegeneration(submissions, RegenerateSession,
                                         CommitPromptQuotes)
           /\ pending' = IF cancel THEN pending ELSE "regeneration"
           /\ agentConv' = IF cancel THEN agentConv ELSE conv
           /\ stepsFired' = IF cancel THEN stepsFired ELSE 0
           /\ deltaIdx' = IF cancel THEN deltaIdx ELSE 0
           /\ stderrWrite' = IF cancel THEN stderrWrite ELSE "suppressed"
           /\ captured' = IF cancel THEN captured ELSE << >>
           /\ streamedMessage' = IF cancel THEN streamedMessage ELSE << >>
    /\ UNCHANGED << jvars, xvars, confirmAsked, feedbackAsked, lastAccept,
                    interrupted, envKey, configKey, sessions, agent, cmd, yes, nested,
                    nestedOutcome, fatal, summary, finalMessage, accepted,
                    gitvars >>

\* the same step in a run of the command, which leaves replLoop's variables alone
CommitFeedbackAnswer(feedback, conv) == CommitLoopFeedback(feedback, conv) /\ UNCHANGED replvars

\* the regeneration exchange resolves: finalMessage replaced, back to the
\* head of the loop and its confirmation prompt
CommitRegenerationResolves ==
    /\ pending = "regeneration"
    /\ Running = "commit"
    /\ pending' = "none"
    /\ submissions' = Settle(submissions)
    /\ stderrWrite' = "original"
    /\ conversation' = agentConv
    /\ extracted' = extractLastAssistantMessage(agentConv)
    /\ finalMessage' =
          OrElse(captured,
                 OrElse(Trim(streamedMessage),
                        OrElse(OrElseOpt(<< >>, extractLastAssistantMessage(agentConv)),
                               finalMessage)))
    /\ accepted' = RunningYes
    /\ pc' = IF RunningYes THEN "committing" ELSE "c_confirm"
    /\ commitCalls' = IF RunningYes THEN commitCalls + 1 ELSE commitCalls
    /\ confirmAsked' = IF RunningYes THEN confirmAsked ELSE confirmAsked + 1
    /\ UNCHANGED << jvars, xpc, replvars, feedbackAsked, regenCalls, lastAccept,
                    lastFeedback, interrupted, envKey, configKey, sessions, agent,
                    agentConv, stepsFired, deltaIdx, cmd, yes, nested,
                    nestedOutcome, fatal, summary, captured, streamedMessage,
                    commitsCreated, pushAsked, pushCalls, pushed, prCalls,
                    prCreated >>

\* the regeneration exchange rejects inside the try of the confirmation
\* loop: stderr restored, "Cancelled. No commit created.", return
CommitRegenerationRejects ==
    /\ pending = "regeneration"
    /\ Running = "commit"
    /\ pending' = "none"
    /\ submissions' = Settle(submissions)
    /\ stderrWrite' = "original"
    /\ pc' = "cancelled"
    /\ UNCHANGED << jvars, xvars, rvars, envKey, configKey, sessions, agent,
                    agentConv, stepsFired, deltaIdx, cmd, yes, nested,
                    nestedOutcome, fatal, summary, captured, streamedMessage,
                    finalMessage, accepted, gitvars >>

\* await createCommit(finalMessage) settles: on success "Push to remote?"
\* is asked, on failure the command's catch exits with code 1
CreateCommitCompletes(ok) ==
    /\ pc = "committing"
    /\ pc' = IF ok THEN "c_pushprompt" ELSE "exit1"
    /\ fatal' = IF ok THEN fatal ELSE "commitFailed"
    /\ commitsCreated' = IF ok THEN commitsCreated + 1 ELSE commitsCreated
    /\ pushAsked' = IF ok THEN pushAsked + 1 ELSE pushAsked
    /\ UNCHANGED << jvars, xvars, rvars, avars, cmd, yes, nested, nestedOutcome,
                    summary, captured, streamedMessage, finalMessage, accepted,
                    commitCalls, pushCalls, pushed, prCalls, prCreated >>

\* "Push to remote?" resolves
PushPromptAnswer(push) ==
    /\ pc = "c_pushprompt"
    /\ pc' = IF push THEN "pushing" ELSE "done"
    /\ pushCalls' = IF push THEN pushCalls + 1 ELSE pushCalls
    /\ UNCHANGED << jvars, xvars, rvars, avars, cmd, yes, nested, nestedOutcome, fatal,
                    summary, captured, streamedMessage, finalMessage, accepted,
                    commitCalls, commitsCreated, pushAsked, pushed, prCalls,
                    prCreated >>

\* "Push to remote?" rejects: outside the inner try, so the command's catch
\* exits with code 1
PushPromptFails ==
    /\ pc = "c_pushprompt"
    /\ pc' = "exit1"
    /\ fatal' = "promptFailed"
    /\ UNCHANGED << jvars, xvars, rvars, avars, cmd, yes, nested, nestedOutcome,
                    summary, captured, streamedMessage, finalMessage, accepted,
                    gitvars >>

\* a failed push rethrown to the command's catch
AfterPushMutant(ok) == IF ok THEN "done" ELSE "exit1"

\* try { await pushToRemote(...) } catch (_error) { pushSpinner.fail(...) }
\* then console.log("Done!"): the command returns normally either way
AfterPush(ok) == "done"

\* the push settles: a failure is reported and swallowed, "Done!" either way
PushCompletes(ok) ==
    /\ pc = "pushing"
    /\ pc' = AfterPush(ok)
    /\ pushed' = IF ok THEN pushed + 1 ELSE pushed
    /\ UNCHANGED << jvars, xvars, rvars, avars, cmd, yes, nested, nestedOutcome, fatal,
                    summary, captured, streamedMessage, finalMessage, accepted,
                    commitCalls, commitsCreated, pushAsked, pushCalls, prCalls,
                    prCreated >>

----------------------------------------------------------------------------
(* raisePRCommand (src/commands/pr.ts, lines 24-352) *)

\* git rev-parse, gh --version, getCurrentBranch, git add, and
\* hasUncommittedChanges: with uncommitted changes "Commit them first?" is asked
PrPrechecks(ok, uncommitted) ==
    /\ pc = "p_start"
    /\ pc' = IF ~ok THEN "exit1" ELSE IF uncommitted THEN "p_commitfirst" ELSE "p_gather"
    /\ fatal' = IF ok THEN fatal ELSE "precheck"
    /\ UNCHANGED << jvars, xvars, rvars, avars, cmd, yes, nested, nestedOutcome,
                    summary, captured, streamedMessage, finalMessage, accepted,
                    gitvars >>

\* "Commit them first?" resolves: commitCommand({ yes: false }) is called, or
\* the warning is printed
PrCommitFirstAnswer(commitFirst) ==
    /\ pc = "p_commitfirst"
    /\ nested' = commitFirst
    /\ pc' = IF commitFirst THEN "c_start" ELSE "p_gather"
    /\ UNCHANGED << jvars, xvars, rvars, avars, cmd, yes, nestedOutcome, fatal, summary,
                    captured, streamedMessage, finalMessage, accepted, gitvars >>

\* "Commit them first?" rejects: the command's catch exits with code 1
PrCommitFirstFails ==
    /\ pc = "p_commitfirst"
    /\ pc' = "exit1"
    /\ fatal' = "promptFailed"
    /\ UNCHANGED << jvars, xvars, rvars, avars, cmd, yes, nested, nestedOutcome,
                    summary, captured, streamedMessage, finalMessage, accepted,
                    gitvars >>

\* raisePRCommand giving up when the nested commit was cancelled
AfterNestedCommitMutant(outcome) == IF outcome = "cancelled" THEN "cancelled" ELSE "p_gather"

\* await commitCommand({ ... }); console.log(""); then "// Get changes
\* data": the value commitCommand resolved with is not looked at
AfterNestedCommit(outcome) == "p_gather"

\* await commitCommand(...) resolves in raisePRCommand, after "Done!" or
\* after a cancellation; the nested call's locals and counters are gone
NestedCommitReturns ==
    /\ nested
    /\ pc \in {"done", "cancelled"}
    /\ nested' = FALSE
    /\ nestedOutcome' = pc
    /\ pc' = AfterNestedCommit(pc)
    /\ conversation' = << >>
    /\ extracted' = Absent
    /\ confirmAsked' = 0
    /\ feedbackAsked' = 0
    /\ regenCalls' = 0
    /\ lastAccept' = Absent
    /\ lastFeedback' = Absent
    /\ interrupted' = FALSE
    /\ sessions' = << >>
    /\ agent' = 0
    /\ submissions' = << >>
    /\ agentConv' = << >>
    /\ stepsFired' = 0
    /\ deltaIdx' = 0
    /\ summary' = << >>
    /\ captured' = << >>
    /\ streamedMessage' = << >>
    /\ finalMessage' = << >>
    /\ accepted' = FALSE
    /\ UNCHANGED << jvars, xpc, replvars, envKey, configKey, pending, stderrWrite, cmd,
                    yes, fatal, gitvars >>

\* getBranchStats, getBranchCommits ("No changes found between ..."),
\* getPRTemplate, then analyzeChanges(..., "pr")
PrGather(ok, conv) ==
    /\ pc = "p_gather"
    /\ conv \in TextConversations
    /\ StartAnalysis(ok, conv)

\* what the first PR exchange yields: the error it ends with, or "none"
PrGenerationError(responseText) ==
    IF responseText = << >> THEN "generationEmpty"
    ELSE IF JsonParse(extractJson(responseText)) = Absent THEN "malformed"
    ELSE IF JsonParse(extractJson(responseText))[1] = Absent THEN "typeError"
    ELSE IF MissingTitleOrBody(JsonParse(extractJson(responseText))[1][1]) THEN "missingField"
    ELSE "none"

\* the PR-content exchange resolves: stderr restored, extractor fallback,
\* extractJson, JSON.parse, the title/body test, then replLoop is called
PrGenerationResolves ==
    /\ pending = "generation"
    /\ Running = "pr"
    /\ LET ext          == extractLastAssistantMessage(agentConv)
           responseText == OrElseOpt(captured, ext)
           error        == PrGenerationError(responseText)
       IN  /\ pending' = "none"
           /\ submissions' = Settle(submissions)
           /\ stderrWrite' = "original"
           /\ conversation' = agentConv
           /\ extracted' = IF captured = << >> THEN ext ELSE extracted
           /\ captured' = responseText
           /\ fatal' = IF error = "none" THEN fatal ELSE error
           /\ pc' = IF error = "none" THEN "p_repl" ELSE "exit1"
           /\ IF error = "none"
              THEN ReplCall(AsPrData(JsonParse(extractJson(responseText))[1][1]), yes)
              ELSE UNCHANGED rvars
    /\ UNCHANGED << jvars, xpc, envKey, configKey, sessions, agent,
                    agentConv, stepsFired, deltaIdx, cmd, yes, nested,
                    nestedOutcome, summary, streamedMessage, finalMessage,
                    accepted, gitvars >>

\* "Accept this PR content?" resolves inside replLoop
PrReplConfirm(accept) ==
    /\ pc = "p_repl"
    /\ ReplConfirmAnswer(accept)
    /\ UNCHANGED << jvars, xvars, avars, cvars >>

\* a prompt of replLoop rejects
PrReplPromptFails ==
    /\ pc = "p_repl"
    /\ ReplPromptFails
    /\ UNCHANGED << jvars, xvars, avars, cvars >>

\* "How should it be improved?" resolves inside replLoop; for non-empty
\* feedback options.regenerate builds its prompt and generatePrContent
\* submits it on the same agent
PrReplFeedback(feedback, conv) ==
    /\ pc = "p_repl"
    /\ conv \in PrConversations
    /\ ReplFeedbackAnswer(feedback)
    /\ LET cancel == ReplIsCancel(feedback)
       IN  /\ submissions' =
                 IF cancel THEN submissions
                 ELSE SubmitRegeneration(submissions, RegenerateSession,
                                         PrPromptQuotes)
           /\ pending' = IF cancel THEN pending ELSE "regeneration"
           /\ agentConv' = IF cancel THEN agentConv ELSE conv
           /\ stepsFired' = IF cancel THEN stepsFired ELSE 0
           /\ deltaIdx' = IF cancel THEN deltaIdx ELSE 0
           /\ stderrWrite' = IF cancel THEN stderrWrite ELSE "suppressed"
           /\ captured' = IF cancel THEN captured ELSE << >>
    /\ UNCHANGED << jvars, xvars, envKey, configKey, sessions, agent, cmd, yes, nested,
                    nestedOutcome, pc, fatal, summary, streamedMessage,
                    finalMessage, accepted, gitvars >>

\* the regeneration exchange resolves in generatePrContent: stderr
\* restored, the PrData or null goes back to replLoop
PrRegenerationResolves ==
    /\ pending = "regeneration"
    /\ Running = "pr"
    /\ pending' = "none"
    /\ submissions' = Settle(submissions)
    /\ stderrWrite' = "original"
    /\ conversation' = agentConv
    /\ extracted' = IF captured = << >> THEN extractLastAssistantMessage(agentConv)
                    ELSE extracted
    /\ ReplRegenerateReturns(generatePrContent(captured, agentConv))
    /\ UNCHANGED << jvars, xpc, envKey, configKey, sessions, agent,
                    agentConv, stepsFired, deltaIdx, cvars >>

\* the regeneration exchange rejects: stderr restored, the rejection leaves
\* generatePrContent and replLoop
PrRegenerationRejects ==
    /\ pending = "regeneration"
    /\ Running = "pr"
    /\ pending' = "none"
    /\ submissions' = Settle(submissions)
    /\ stderrWrite' = "original"
    /\ ReplRegenerateThrows
    /\ UNCHANGED << jvars, xvars, envKey, configKey, sessions, agent,
                    agentConv, stepsFired, deltaIdx, cvars >>

\* raisePRCommand going on to gh pr create whatever replLoop returned
PrProceedsMutant == TRUE

\* if (!accepted) { ...; return; }
PrProceeds == replReturn[1].accepted

\* await replLoop(...) resolves: "Cancelled. No PR created." and return, or
\* gh pr create is run
PrReplReturned ==
    /\ pc = "p_repl"
    /\ rpc = "returned"
    /\ pc' = IF PrProceeds THEN "p_creating" ELSE "cancelled"
    /\ prCalls' = IF PrProceeds THEN prCalls + 1 ELSE prCalls
    /\ UNCHANGED << jvars, xvars, rvars, avars, cmd, yes, nested, nestedOutcome, fatal,
                    summary, captured, streamedMessage, finalMessage, accepted,
                    commitCalls, commitsCreated, pushAsked, pushCalls, pushed,
                    prCreated >>

\* await replLoop(...) rejects: the command's catch prints the error and
\* calls process.exit(1)
PrReplThrew ==
    /\ pc = "p_repl"
    /\ rpc = "threw"
    /\ pc' = "exit1"
    /\ fatal' = IF spinner = "started" THEN "agentRejected" ELSE "promptFailed"
    /\ UNCHANGED << jvars, xvars, rvars, avars, cmd, yes, nested, nestedOutcome,
                    summary, captured, streamedMessage, finalMessage, accepted,
                    gitvars >>

\* gh pr create settles
PrCreateCompletes(ok) ==
    /\ pc = "p_creating"
    /\ pc' = IF ok THEN "done" ELSE "exit1"
    /\ fatal' = IF ok THEN fatal ELSE "prCreateFailed"
    /\ prCreated' = IF ok THEN prCreated + 1 ELSE prCreated
    /\ UNCHANGED << jvars, xvars, rvars, avars, cmd, yes, nested, nestedOutcome,
                    summary, captured, streamedMessage, finalMessage, accepted,
                    commitCalls, commitsCreated, pushAsked, pushCalls, pushed,
                    prCalls >>

----------------------------------------------------------------------------
(* One invocation of rivet commit or rivet pr *)

Init ==
    /\ conversation = << >>
    /\ extracted = Absent
    /\ xpc = "done"
    /\ initialValue = NoPrData
    /\ skipConfirmation = FALSE
    /\ ReplIdle
    /\ envKey \in Opt({"env-key"})
    /\ configKey \in Opt({"config-key"})
    /\ sessions = << >>
    /\ agent = 0
    /\ submissions = << >>
    /\ pending = "none"
    /\ agentConv = << >>
    /\ stepsFired = 0
    /\ deltaIdx = 0
    /\ stderrWrite = "original"
    /\ cmd \in {"commit", "pr"}
    /\ yes \in BOOLEAN
    /\ nested = FALSE
    /\ nestedOutcome = "none"
    /\ pc = IF cmd = "commit" THEN "c_start" ELSE "p_start"
    /\ fatal = "none"
    /\ summary = << >>
    /\ captured = << >>
    /\ streamedMessage = << >>
    /\ finalMessage = << >>
    /\ accepted = FALSE
    /\ commitCalls = 0
    /\ commitsCreated = 0
    /\ pushAsked = 0
    /\ pushCalls = 0
    /\ pushed = 0
    /\ prCalls = 0
    /\ prCreated = 0
    /\ JsonIdle

Next ==
    \/ \E ok \in BOOLEAN, conv \in TextConversations : CommitPrechecks(ok, conv)
    \/ OnStep
    \/ \E delivered \in BOOLEAN : OnDelta(delivered)
    \/ \E conv \in TextConversations \cup PrConversations : AnalysisResolves(conv)
    \/ AnalysisRejects
    \/ GenerationRejects
    \/ CommitGenerationResolves
    \/ \E accept \in BOOLEAN : CommitConfirmAnswer(accept)
    \/ CommitPromptFails
    \/ \E feedback \in FeedbackTexts, conv \in TextConversations :
          CommitFeedbackAnswer(feedback, conv)
    \/ CommitRegenerationResolves
    \/ CommitRegenerationRejects
    \/ \E ok \in BOOLEAN : CreateCommitCompletes(ok)
    \/ \E push \in BOOLEAN : PushPromptAnswer(push)
    \/ PushPromptFails
    \/ \E ok \in BOOLEAN : PushCompletes(ok)
    \/ \E ok, uncommitted \in BOOLEAN : PrPrechecks(ok, uncommitted)
    \/ \E commitFirst \in BOOLEAN : PrCommitFirstAnswer(commitFirst)
    \/ PrCommitFirstFails
    \/ NestedCommitReturns
    \/ \E ok \in BOOLEAN, conv \in TextConversations : PrGather(ok, conv)
    \/ PrGenerationResolves
    \/ \E accept \in BOOLEAN : PrReplConfirm(accept)
    \/ PrReplPromptFails
    \/ \E feedback \in FeedbackTexts, conv \in PrConversations :
          PrReplFeedback(feedback, conv)
    \/ PrRegenerationResolves
    \/ PrRegenerationRejects
    \/ PrReplReturned
    \/ PrReplThrew
    \/ \E ok \in BOOLEAN : PrCreateCompletes(ok)

Spec == Init /\ [][Next]_vars

----------------------------------------------------------------------------
(* Runs in which whatever the command awaits settles: the agent's run
   completes or fails, a prompt is answered or interrupted, git and gh
   return. The API key, when there is one, comes from the environment. *)

LiveInit == Init /\ configKey = Absent

\* the steps of Next, the callbacks and the rejections named first
Settles ==
    \/ OnStep
    \/ \E delivered \in BOOLEAN : OnDelta(delivered)
    \/ AnalysisRejects
    \/ GenerationRejects
    \/ CommitRegenerationRejects
    \/ PrRegenerationRejects
    \/ Next

SpecLive == LiveInit /\ [][Next]_vars /\ WF_vars(Settles)

----------------------------------------------------------------------------
(* JSON recovery and validation applied to response texts (pr.ts, 209-230) *)

\* longest response text of arbitrary tokens
MaxTextLen == 5

\* longest text before, and after, a fenced json block
MaxSurround == 2

\* most members of a payload object
MaxMembers == 3

\* a code fence, its language tag (prose elsewhere), whitespace, braces
RecoveryTokens == {Fence, "json", " ", "{", "}"}

RecoveryTexts == SeqsUpTo(RecoveryTokens, MaxTextLen)

\* JSON objects of title, body and labels members
PayloadObjects ==
    {<< "{" >> \o members \o << "}" >> : members \in SeqsUpTo(MemberTokens, MaxMembers)}

\* an object, the literal null, or prose
Payloads == PayloadObjects \cup {<< "null" >>, << "x" >>}

\* a payload bare, inside prose, or inside a fenced json block
PayloadTexts ==
    Payloads
      \cup {<< "x" >> \o p \o << "x" >> : p \in Payloads}
      \cup {<< Fence, "json", " " >> \o p \o << " ", Fence >> : p \in Payloads}

\* a fenced json block holding an empty object
JsonBlockTexts ==
    { << Fence, "json", "{", "}", Fence >>,
      << Fence, "json", " ", "{", " ", "}", " ", Fence >> }

\* a fenced json block inside arbitrary text
FencedTexts ==
    {before \o block \o after :
        before \in SeqsUpTo(RecoveryTokens, MaxSurround),
        block \in JsonBlockTexts,
        after \in SeqsUpTo(RecoveryTokens, MaxSurround)}

JsonInputs == RecoveryTexts \cup FencedTexts \cup PayloadTexts

JsonInit ==
    /\ conversation = << >>
    /\ extracted = Absent
    /\ xpc = "done"
    /\ initialValue = NoPrData
    /\ skipConfirmation = FALSE
    /\ ReplIdle
    /\ NoCommand
    /\ jsonInput \in JsonInputs
    /\ jsonText = Absent
    /\ prError = "none"
    /\ prData = Absent
    /\ jpc = "input"

\* const jsonText = extractJson(responseText)
CallExtractJson ==
    /\ jpc = "input"
    /\ jsonText' = Some(extractJson(jsonInput))
    /\ jpc' = "recovered"
    /\ UNCHANGED << jsonInput, prError, prData, xvars, rvars, avars, cvars >>

\* if (!responseText) throw, JSON.parse(jsonText) in its try, then the
\* title/body test: the error thrown, or prData
CallValidate ==
    /\ jpc = "recovered"
    /\ prError' = PrGenerationError(jsonInput)
    /\ prData' = IF PrGenerationError(jsonInput) = "none"
                  THEN Some(AsPrData(JsonParse(jsonText[1])[1][1]))
                  ELSE Absent
    /\ jpc' = "validated"
    /\ UNCHANGED << jsonInput, jsonText, xvars, rvars, avars, cvars >>

JsonNext == CallExtractJson \/ CallValidate

SpecJson == JsonInit /\ [][JsonNext]_vars

----------------------------------------------------------------------------
(* commitCommand's inline confirmation loop (pr.ts, 523-604) next to
   replLoop (ui.ts, 6-57) over commit messages: replLoop is called with the
   first commit message and options.yes, receives every answer the inline
   loop receives, and its regenerate option returns what the inline loop
   recovered from the regeneration exchange. The two loops answer a prompt
   in one step; replLoop is called, and its regenerate option returns, in
   the step after the exchange resolved. confirmAsked counts the prompts
   of both loops. *)

\* what a regenerate option over commit messages returns for the exchange
\* that completed: the message recovered from it, null when there is none
RecoveredMessage ==
    LET r == OrElse(captured,
                    OrElse(Trim(streamedMessage),
                           OrElseOpt(<< >>, extractLastAssistantMessage(agentConv))))
    IN  IF r = << >> THEN Absent ELSE Some(r)

LoopsInit == Init /\ cmd = "commit"

\* replLoop(finalMessage, options, options.yes) is called once the inline
\* loop has been entered
LoopsReplCalled ==
    /\ pc \in {"c_confirm", "committing"}
    /\ ReplCall(finalMessage, RunningYes)
    /\ UNCHANGED << jvars, xvars, avars, cvars >>

\* one answer to the confirmation prompt of both loops
LoopsConfirm(accept) == CommitLoopConfirm(accept) /\ ReplConfirmAnswer(accept)

\* one answer to the feedback prompt of both loops
LoopsFeedback(feedback, conv) ==
    CommitLoopFeedback(feedback, conv) /\ ReplFeedbackAnswer(feedback)

\* options.regenerate returns what was recovered from the exchange that
\* resolved
LoopsReplRegenerated ==
    /\ pending = "none"
    /\ ReplRegenerateReturns(RecoveredMessage)
    /\ UNCHANGED << jvars, xvars, avars, cvars >>

LoopsNext ==
    \/ \E ok \in BOOLEAN, conv \in TextConversations : CommitPrechecks(ok, conv)
    \/ OnStep
    \/ \E delivered \in BOOLEAN : OnDelta(delivered)
    \/ \E conv \in TextConversations : AnalysisResolves(conv)
    \/ CommitGenerationResolves
    \/ LoopsReplCalled
    \/ \E accept \in BOOLEAN : LoopsConfirm(accept)
    \/ \E feedback \in FeedbackTexts, conv \in TextConversations :
          LoopsFeedback(feedback, conv)
    \/ CommitRegenerationResolves
    \/ LoopsReplRegenerated

SpecLoops == LoopsInit /\ [][LoopsNext]_vars

----------------------------------------------------------------------------
(* C7 .. C10: the commands *)

\* C7: a confirmation or feedback prompt of the refinement step that rejects
\* counts as "not accepted": the loop ends with accepted = FALSE and the
\* current value, the command takes its cancelled path with no commit and no
\* PR, and it does not end as a fatal error.
C7_InterruptedPromptIsNotAccepted ==
    interrupted
        => /\ pc # "exit1"
           /\ fatal = "none"
           /\ IF Running = "commit"
              THEN ~accepted /\ pc = "cancelled" /\ commitCalls = 0
              ELSE /\ rpc = "returned"
                   /\ replReturn = Some([accepted |-> FALSE, value |-> currentValue])
                   /\ prCalls = 0

\* a step in which the analysis exchange resolved
AnalysisResolved ==
    pending = "analysis" /\ pending' # "analysis" /\ fatal' # "agentRejected"

\* C8: createCommit is called only when the confirmation loop has ended
\* accepted, gh pr create only when replLoop has returned accepted; on a
\* cancelled path and on the fatal paths of an empty analysis, an empty
\* generation, a malformed payload or a missing field the running command
\* has made neither call.
C8_NothingWrittenBeforeAcceptance ==
    /\ [][commitCalls' # commitCalls => accepted' /\ Running = "commit"]_vars
    /\ [][prCalls' # prCalls
            => /\ rpc = "returned"
               /\ replReturn[1].accepted
               /\ Running = "pr"]_vars
    /\ []((pc = "cancelled"
            \/ fatal \in {"analysisEmpty", "generationEmpty", "malformed", "missingField"})
            => IF Running = "commit" THEN commitCalls = 0 ELSE prCalls = 0)

\* gh pr create called after a rejection, a regeneration and an acceptance
C8_Witness ==
    /\ pc = "p_creating"
    /\ prCalls = 1
    /\ replReturn[1].accepted
    /\ lastAccept = Some(TRUE)
    /\ lastRegenerated # Absent

\* C9: when the analysis exchange resolves with nothing captured by onStep
\* and the completed conversation holds a non-empty assistant message, the
\* extractor's result becomes the summary and the generation turn starts.
C9_AnalysisFallsBackToExtractor ==
    [][(AnalysisResolved
          /\ summary = << >>
          /\ extractLastAssistantMessage(agentConv) # Absent)
        => (/\ summary' = extractLastAssistantMessage(agentConv)[1]
            /\ pc' = "generating"
            /\ pending' = "generation")]_vars

\* C10: whenever no agent conversation is awaited, process.stderr.write is
\* the original function: every suppression has been undone, whether the
\* awaited conversation resolved or rejected.
C10_StderrRestoredOnEveryExit ==
    pending = "none" => stderrWrite = "original"

----------------------------------------------------------------------------
(* C11 .. C14, C20: the two turns of a command *)

\* the submissions whose run has not completed
InFlight == {i \in DOMAIN submissions : ~submissions[i].settled}

\* a step in which agent.submit is called
Submitted == Len(submissions') > Len(submissions)

\* C11: at most one agent submission is in flight at any time. An agent
\* session is created, and a prompt submitted, only once every earlier
\* submission of the invocation has completed: the analysis before the
\* generation session is opened, each submission on the generation session
\* before the next regeneration is submitted on it.
C11_OneSubmissionInFlight ==
    /\ [](Cardinality(InFlight) <= 1)
    /\ [][(Len(sessions') > Len(sessions))
            => (\A i \in DOMAIN submissions : submissions'[i].settled)]_vars
    /\ [][Submitted
            => (\A i \in DOMAIN submissions :
                   /\ submissions'[i].settled
                   /\ submissions'[i].kind = submissions[i].kind
                   /\ submissions'[i].session = submissions[i].session)]_vars

\* the second regeneration in flight after the analysis, the generation and
\* the first regeneration have completed
C11_Witness ==
    /\ Len(submissions) = 4
    /\ InFlight = {4}
    /\ submissions[1].kind = "analysis"
    /\ submissions[2].kind = "generation"
    /\ submissions[4].kind = "regeneration"

\* the refinement step of the running command
Refining == pc \in {"c_confirm", "c_feedback", "c_regenerating", "p_repl"}

ValidCommitMessage(text) ==
    /\ text # << >>
    /\ ~IsWhitespace(text[1])
    /\ ~IsWhitespace(text[Len(text)])

\* a PR payload with a non-empty title and a non-empty body
ValidPrPayload(data) ==
    /\ data.title # Absent
    /\ data.title # Some("")
    /\ data.body # Absent
    /\ data.body # Some("")

\* C14: the commit message the confirmation loop holds while it asks for
\* acceptance or feedback, regenerates, or commits is a non-empty trimmed
\* text; every PR payload replLoop holds or has displayed has a non-empty
\* title and a non-empty body. Both hold for the first artifact and after
\* every regeneration.
C14_PresentedArtifactIsValid ==
    /\ (Running = "commit" /\ pc \in {"c_confirm", "c_feedback", "c_regenerating", "committing"})
          => ValidCommitMessage(finalMessage)
    /\ lastDisplayed # Absent => ValidPrPayload(lastDisplayed[1])
    /\ pc = "p_repl" => ValidPrPayload(currentValue)
    /\ replReturn # Absent => ValidPrPayload(replReturn[1].value)

\* a regenerated PR payload displayed
C14_Witness ==
    /\ pc = "p_repl"
    /\ rpc = "confirm"
    /\ regenResult # Absent
    /\ regenResult[1] # Absent
    /\ lastDisplayed = regenResult[1]
    /\ displayCount = 2

\* C20: an analysis exchange that resolves with nothing captured and no
\* assistant text in its conversation ends the command: the process exits
\* with code 1 after one analysis submission on one session, no generation
\* session, no createCommit or gh pr create call of the running command,
\* and it takes no further step.
C20_EmptyAnalysisIsFatal ==
    /\ [][(AnalysisResolved
            /\ summary = << >>
            /\ extractLastAssistantMessage(agentConv) = Absent)
           => (/\ pc' = "exit1"
               /\ fatal' = "analysisEmpty"
               /\ sessions' = sessions
               /\ Len(submissions') = Len(submissions))]_vars
    /\ [](fatal = "analysisEmpty"
            => (/\ pc = "exit1"
                /\ pending = "none"
                /\ Len(sessions) = 1
                /\ agent = 0
                /\ Len(submissions) = 1
                /\ submissions[1].kind = "analysis"
                /\ prCalls = 0
                /\ (Running = "commit" => commitCalls = 0)))
    /\ [][fatal # "analysisEmpty"]_vars

\* the command ended by an analysis whose conversation holds no assistant text
C20_Witness ==
    /\ fatal = "analysisEmpty"
    /\ pc = "exit1"
    /\ extractLastAssistantMessage(agentConv) = Absent

----------------------------------------------------------------------------
(* C15 .. C19: JSON recovery and PR validation *)

\* index of the first token after position i that is not whitespace
NextToken(t, i) == CHOOSE k \in (i + 1)..(Len(t) + 1) :
                      /\ \A m \in (i + 1)..(k - 1) : t[m] = " "
                      /\ k <= Len(t) => t[k] # " "

\* << k, e >> : a fenced json block whose content is the balanced object
\* that opens at k and closes at e
JsonBlocks(t) ==
    {b \in (1..Len(t)) \X (1..Len(t)) :
        /\ b[1] < b[2]
        /\ t[b[1]] = "{"
        /\ t[b[2]] = "}"
        /\ \A m \in (b[1] + 1)..(b[2] - 1) : t[m] \notin {"{", "}", Fence}
        /\ NextToken(t, b[2]) <= Len(t)
        /\ t[NextToken(t, b[2])] = Fence
        /\ \E i \in 1..(b[1] - 2) :
              /\ t[i] = Fence
              /\ t[i + 1] = "json"
              /\ NextToken(t, i + 1) = b[1]}

\* C15: for a text that contains a fenced json block holding a balanced
\* object, extractJson returns the source text of that object (of the
\* first such block), whatever surrounds the block.
C15_FencedObjectIsRecovered ==
    (jsonText # Absent /\ JsonBlocks(jsonInput) # {})
        => (\E b \in JsonBlocks(jsonInput) :
              /\ \A c \in JsonBlocks(jsonInput) : b[1] <= c[1]
              /\ jsonText[1] = SubSeq(jsonInput, b[1], b[2]))

\* the opening braces that a closing brace follows
SpanStarts(t) ==
    {i \in 1..Len(t) : t[i] = "{" /\ \E e \in (i + 1)..Len(t) : t[e] = "}"}

\* a pair of fences with an opening brace and, after it, a closing brace
\* between them
HasFencedBraces(t) ==
    \E k \in 1..Len(t) :
        /\ t[k] = "{"
        /\ \E i \in 1..(k - 1) : t[i] = Fence
        /\ \E e \in (k + 1)..Len(t) :
              /\ t[e] = "}"
              /\ \E j \in (e + 1)..Len(t) : t[j] = Fence

\* C16: for a text without a fenced block around a brace-delimited span,
\* in which some opening brace is followed by a closing brace, extractJson
\* returns the text from the first opening brace to the last closing brace.
C16_BraceSpanIsFirstToLast ==
    (jsonText # Absent /\ ~HasFencedBraces(jsonInput) /\ SpanStarts(jsonInput) # {})
        => (\E k, e \in 1..Len(jsonInput) :
              /\ jsonInput[k] = "{"
              /\ jsonInput[e] = "}"
              /\ \A m \in 1..(k - 1) : jsonInput[m] # "{"
              /\ \A m \in (e + 1)..Len(jsonInput) : jsonInput[m] # "}"
              /\ jsonText[1] = SubSeq(jsonInput, k, e))

\* a span with two closing braces and a stray fence, recovered
C16_Witness ==
    /\ jsonText # Absent
    /\ ~HasFencedBraces(jsonInput)
    /\ SpanStarts(jsonInput) # {}
    /\ Cardinality({e \in 1..Len(jsonInput) : jsonInput[e] = "}"}) >= 2
    /\ \E i \in 1..Len(jsonInput) : jsonInput[i] = Fence
    /\ jsonInput[1] # "{"

\* C17: extractJson yields a text for every input, and the input itself
\* when no opening brace of the input is followed by a closing brace (which
\* also leaves no fenced brace-delimited block).
C17_RecoveryNeverFails ==
    /\ [][jpc = "input" => jsonText' # Absent]_vars
    /\ [](jsonText # Absent
            => (/\ jsonText[1] \in Seq(RecoveryTokens \cup MemberTokens \cup {"null", "x"})
                /\ Len(jsonText[1]) <= Len(jsonInput)
                /\ SpanStarts(jsonInput) = {} => jsonText[1] = jsonInput))
    /\ [](jpc = "input" => ENABLED CallExtractJson)

\* a text with braces and fences but no span, returned unchanged
C17_Witness ==
    /\ jsonText # Absent
    /\ SpanStarts(jsonInput) = {}
    /\ jsonText[1] = jsonInput
    /\ \E i, j \in 1..Len(jsonInput) : i < j /\ jsonInput[i] = "}" /\ jsonInput[j] = "{"
    /\ Cardinality({i \in 1..Len(jsonInput) : jsonInput[i] = Fence}) >= 2

\* the recovered text deserializes to an object
ParsesToObject == jsonText # Absent /\ JsonParse(jsonText[1]) # Absent /\ JsonParse(jsonText[1])[1] # Absent

\* the object the recovered text deserializes to
ParsedObject == JsonParse(jsonText[1])[1][1]

\* what validation does with a deserialized object, but for its labels
ValidationOfObject ==
    IF ValidPrPayload(ParsedObject)
    THEN /\ prError = "none"
         /\ prData # Absent
         /\ prData[1].title = ParsedObject.title
         /\ prData[1].body = ParsedObject.body
         /\ ParsedObject.labels # Absent => prData[1].labels = ParsedObject.labels
    ELSE /\ prError = "missingField"
         /\ prData = Absent

C19_ParsingErrorsAreTwo ==
    (jpc = "validated" /\ jsonInput # << >>)
        => LET parsed == JsonParse(jsonText[1])
               lacks  == parsed # Absent
                           /\ (parsed[1] = Absent \/ ~ValidPrPayload(parsed[1][1]))
           IN  /\ prError \in {"none", "malformed", "missingField"}
               /\ prError = "malformed" <=> parsed = Absent
               /\ prError = "missingField" <=> lacks
               /\ prError = "none" <=> prData # Absent

----------------------------------------------------------------------------
(* C21 .. C30 *)

\* a step in which a generation or regeneration exchange resolved
GenerationResolved ==
    /\ pending \in {"generation", "regeneration"}
    /\ pending' = "none"
    /\ fatal' # "agentRejected"
    /\ pc' # "cancelled"
    /\ rpc' # "threw"

\* C21: when a generation or regeneration exchange resolves with nothing
\* captured by onStep and an assistant text in its conversation, the
\* artifact is the extractor's result over that conversation: the commit
\* message of commitCommand, the response text raisePRCommand parses. What
\* onDelta delivered plays no part.
C21_ArtifactNeverFromDeltas ==
    [][(GenerationResolved
          /\ captured = << >>
          /\ extractLastAssistantMessage(agentConv) # Absent)
        => (IF Running = "commit"
            THEN finalMessage' = extractLastAssistantMessage(agentConv)[1]
            ELSE pending = "generation"
                    => captured' = extractLastAssistantMessage(agentConv)[1])]_vars

\* neither CURSOR_API_KEY nor the configuration file holds an API key
NoCredential == envKey = Absent /\ configKey = Absent

\* C22: without a credential no session is ever created and no prompt
\* submitted; the step that reaches createAgent ends the process with exit
\* code 1 on the branch that prints "CURSOR_API_KEY not found" and the two
\* remedies.
C22_NoCredentialNoSession ==
    /\ [](NoCredential
            => (sessions = << >> /\ submissions = << >> /\ pending = "none" /\ agent = 0))
    /\ [](fatal = "noKey" => (pc = "exit1" /\ NoCredential))
    /\ [][(NoCredential /\ pc \in {"c_start", "p_gather"} /\ pc' # pc /\ fatal' # "precheck")
            => (pc' = "exit1" /\ fatal' = "noKey")]_vars

\* the process ended by createAgent
C22_Witness ==
    /\ fatal = "noKey"
    /\ pc = "exit1"
    /\ sessions = << >>

\* C23: with an API key both in the configuration file and in
\* CURSOR_API_KEY, every session is opened with the key of the
\* configuration file.
C23_ConfigKeyTakesPrecedence ==
    (envKey # Absent /\ configKey # Absent)
        => (\A i \in DOMAIN sessions : sessions[i].apiKey = configKey[1])

\* C24: in commitCommand a push that fails leaves the command on its normal
\* end: "Done!", no exit with code 1, the commit created and not undone.
C24_PushFailureKeepsCommit ==
    /\ [][pc = "pushing"
            => (/\ pc' = "done"
                /\ fatal' = fatal
                /\ commitsCreated' = commitsCreated
                /\ commitCalls' = commitCalls)]_vars
    /\ []((Running = "commit" /\ pushCalls > pushed /\ pc # "pushing")
            => (pc = "done" /\ fatal = "none" /\ commitsCreated = 1))

\* commitCommand at "Done!" after a push that failed
C24_Witness ==
    /\ Running = "commit"
    /\ pc = "done"
    /\ pushCalls = 1
    /\ pushed = 0
    /\ commitsCreated = 1

\* C25: rivet commit --yes asks no prompt at any point: no confirmation, no
\* feedback and no push prompt; the first generated message is committed.
C25_YesAsksNoPrompt ==
    (cmd = "commit" /\ yes)
        => (/\ confirmAsked = 0
            /\ feedbackAsked = 0
            /\ pushAsked = 0
            /\ regenCalls = 0)

\* the turn contributes its step list, if it has one
HasSteps(turn) == turn.turn # Absent /\ turn.turn[1].steps # Absent

\* the step holds a text with a character that is not whitespace
HasVisibleText(step) ==
    /\ step.message # Absent
    /\ step.message[1].text # Absent
    /\ \E k \in 1..Len(step.message[1].text[1]) : step.message[1].text[1][k] # " "

\* the conversation without what is absent or blank: turns without payload
\* or step list dropped, and in every step list the steps without message,
\* without text or with whitespace-only text dropped
Present(conv) ==
    LET turns == SelectSeq(conv, HasSteps)
    IN  [i \in 1..Len(turns) |->
           [turns[i] EXCEPT !.turn =
               Some([steps |-> Some(SelectSeq(turns[i].turn[1].steps[1], HasVisibleText))])]]

\* C26: the extractor returns for every conversation, and returns what it
\* returns for the conversation stripped of absent and blank parts: a turn
\* without payload, a turn without step list, a step without message, a
\* message without text and a whitespace-only text contribute nothing, so
\* an earlier non-empty step is found behind them.
C26_AbsenceIsZeroElements ==
    /\ [][xpc = "input"
            => (/\ xpc' = "done"
                /\ extracted' # Absent
                      => (Len(extracted') = 1 /\ extracted'[1] \in Seq({"a", "b", " "})))]_vars
    /\ [](xpc = "done" => extracted = extractLastAssistantMessage(Present(conversation)))
    /\ [](xpc = "done"
            => \A i \in 1..Len(conversation) :
                 (/\ conversation[i].type = ConversationTurnType
                  /\ HasSteps(conversation[i])
                  /\ \E j \in 1..Len(conversation[i].turn[1].steps[1]) :
                        /\ conversation[i].turn[1].steps[1][j].type = AssistantMessageType
                        /\ HasVisibleText(conversation[i].turn[1].steps[1][j]))
                 => extracted # Absent)

\* a text found in the first turn behind a turn without step list, and in
\* that turn behind a whitespace-only step
C26_Witness ==
    /\ xpc = "done"
    /\ extracted = Some(<< "a" >>)
    /\ Len(conversation) = 2
    /\ conversation[2].type = ConversationTurnType
    /\ ~HasSteps(conversation[2])
    /\ HasSteps(conversation[1])
    /\ Len(conversation[1].turn[1].steps[1]) = 2
    /\ conversation[1].turn[1].steps[1][2].message = Some([text |-> Some(<< " " >>)])

FirstGenerationResolved ==
    pending = "generation" /\ pending' = "none" /\ fatal' # "agentRejected"

\* the text the first generation yields: the onStep capture, else the
\* extractor's result, else nothing
FirstResult ==
    IF captured # << >> THEN captured
    ELSE IF extractLastAssistantMessage(agentConv) # Absent
         THEN extractLastAssistantMessage(agentConv)[1]
         ELSE << >>

\* the first generation attempt fails: an empty result, or in raisePRCommand
\* a payload that does not deserialize or has no non-empty title and body
FirstGenerationFails ==
    \/ FirstResult = << >>
    \/ /\ Running = "pr"
       /\ \/ JsonParse(extractJson(FirstResult)) = Absent
          \/ JsonParse(extractJson(FirstResult))[1] = Absent
          \/ ~ValidPrPayload(JsonParse(extractJson(FirstResult))[1][1])

\* C28: a first generation that fails ends the command at once with exit
\* code 1: replLoop and the confirmation loop are not entered, nothing is
\* displayed or asked, regenerate is not called, the running command makes
\* no createCommit and no gh pr create call, and no step follows.
C28_FailedFirstGenerationAborts ==
    /\ [][(FirstGenerationResolved /\ FirstGenerationFails)
            => (/\ pc' = "exit1"
                /\ fatal' \notin {"none", "agentRejected"}
                /\ rpc' = "idle"
                /\ displayCount' = 0
                /\ confirmAsked' = 0
                /\ feedbackAsked' = 0
                /\ regenCalls' = 0
                /\ prCalls' = 0
                /\ (Running = "commit" => commitCalls' = 0))]_vars
    /\ [][pc # "exit1"]_vars

\* raisePRCommand ended by a payload without body
C28_Witness ==
    /\ pc = "exit1"
    /\ fatal = "missingField"
    /\ rpc = "idle"
    /\ captured = << "{", "t1", "}" >>

\* a step in which a text-delta fragment is produced
DeltaStep == deltaIdx' = deltaIdx + 1

\* C29: a text-delta fragment arrives only while a submission is pending;
\* the step leaves the onStep capture, the analysis summary, the artifact,
\* the accepted flag, the sessions and submissions, the prompts, replLoop
\* and the effects on git unchanged, and the buffer either unchanged (the
\* fragment dropped, or raisePRCommand) or extended by that fragment at
\* its end. The buffer changes in no other way than by a new, empty buffer
\* of the next submission.
C29_DeltaOnlyAppends ==
    /\ [][DeltaStep
            => (/\ pending # "none"
                /\ UNCHANGED << captured, summary, finalMessage, accepted, sessions, agent,
                                submissions, pending, agentConv, stepsFired, stderrWrite,
                                pc, fatal, nested, rvars, gitvars >>
                /\ \/ streamedMessage' = streamedMessage
                   \/ /\ Len(streamedMessage') = Len(streamedMessage) + 1
                      /\ SubSeq(streamedMessage', 1, Len(streamedMessage)) = streamedMessage
                      /\ streamedMessage'[Len(streamedMessage')]
                            = DeltaText(agentConv)[deltaIdx + 1])]_vars
    /\ [][streamedMessage' # streamedMessage
            => (DeltaStep \/ streamedMessage' = << >>)]_vars

\* two fragments appended to the buffer of a pending submission
C29_Witness ==
    /\ pending # "none"
    /\ deltaIdx = 2
    /\ streamedMessage = << "m", "n" >>

\* C30: while a submission is in flight and does not complete, the command
\* stays where it is: no prompt, no createCommit or gh pr create, no exit,
\* no new session; only onStep and onDelta callbacks run. A command with a
\* submission in flight has not ended.
C30_PendingSubmissionBlocks ==
    /\ [][(InFlight # {} /\ InFlight' = InFlight)
            => UNCHANGED << pc, fatal, nested, rvars, gitvars, sessions, agent,
                           submissions, pending, stderrWrite >>]_vars
    /\ [](InFlight # {}
            => (/\ pending # "none"
                /\ pc \in {"analyzing", "generating", "c_regenerating", "p_repl"}))

\* a regeneration in flight with every callback delivered: only its
\* completion can follow
C30_Witness ==
    /\ pending = "regeneration"
    /\ InFlight # {}
    /\ stepsFired = Len(AgentSteps(agentConv))
    /\ stepsFired > 0
    /\ deltaIdx = Len(DeltaText(agentConv))

----------------------------------------------------------------------------
(* C31 .. C38 *)

\* << k, e >> : a fenced block, tagged json or bare, whose content is the
\* brace-delimited text from k to e: an opening fence (and its tag) before
\* k, the closing fence after e, no fence in between
FencedBlocks(t) ==
    {b \in (1..Len(t)) \X (1..Len(t)) :
        /\ b[1] < b[2]
        /\ t[b[1]] = "{"
        /\ t[b[2]] = "}"
        /\ \A m \in (b[1] + 1)..(b[2] - 1) : t[m] # Fence
        /\ NextToken(t, b[2]) <= Len(t)
        /\ t[NextToken(t, b[2])] = Fence
        /\ \E i \in 1..(b[1] - 1) :
              /\ t[i] = Fence
              /\ \/ NextToken(t, i) = b[1]
                 \/ (t[i + 1] = "json" /\ NextToken(t, i + 1) = b[1])}

AllStepsFired == pending # "none" /\ stepsFired = Len(AgentSteps(agentConv))

\* the text the onStep callbacks of the pending exchange have captured
LiveCapture == IF pending = "analysis" THEN summary ELSE captured

\* C32: once onStep has fired for every step of an exchange, in order, the
\* text the callbacks captured is the extractor's result over the
\* exchange's conversation (no text when the extractor finds none); a
\* blank assistant message after a non-empty one leaves the capture.
C32_LiveCaptureAgreesWithExtractor ==
    AllStepsFired
        => LiveCapture = (IF extractLastAssistantMessage(agentConv) = Absent
                          THEN << >>
                          ELSE extractLastAssistantMessage(agentConv)[1])

\* the artifact last displayed to the user by the running command
CurrentArtifact == IF Running = "commit" THEN finalMessage ELSE currentValue

\* C33: the prompt of a regeneration in flight quotes as previous content
\* the artifact that is current, the one displayed before the rejection,
\* in commitCommand and in raisePRCommand, after any number of successful
\* regenerations.
C33_RegenerationQuotesCurrentArtifact ==
    pending = "regeneration"
        => submissions[Len(submissions)].quoted = Some(CurrentArtifact)

\* the inline loop is a step ahead: replLoop not yet called, or its
\* regenerate option not yet returned
ReplBehind ==
    \/ rpc = "idle" /\ pc \in {"c_confirm", "committing"}
    \/ rpc = "regenerate" /\ pc = "c_confirm"

\* C34: run on the same confirmation answers, feedback texts and
\* regeneration results, commitCommand's inline loop and replLoop stand at
\* the same prompt with the same current message, take every answer
\* together (every regeneration within MaxRounds), and end together: both
\* accepted or both cancelled, with the same final message.
C34_InlineLoopMatchesReplLoop ==
    /\ (rpc = "idle" /\ pc \in {"c_confirm", "committing"})
          => \E m \in {finalMessage} : ENABLED ReplCall(m, RunningYes)
    /\ (rpc = "regenerate" /\ pc = "c_confirm")
          => (/\ pending = "none"
              /\ \E r \in {RecoveredMessage} : ENABLED ReplRegenerateReturns(r))
    /\ ~ReplBehind
          => (/\ (pc = "c_confirm") <=> (rpc = "confirm")
              /\ (pc = "c_feedback") <=> (rpc = "feedback")
              /\ (pc = "c_regenerating") <=> (rpc = "regenerate")
              /\ (pc \in {"committing", "cancelled"}) <=> (rpc = "returned")
              /\ (rpc # "idle") => (currentValue = finalMessage)
              /\ (rpc = "returned")
                    => (/\ replReturn
                              = Some([accepted |-> accepted, value |-> finalMessage])
                        /\ accepted <=> (pc = "committing"))
              /\ (pc = "c_confirm")
                    => \A accept \in BOOLEAN : ENABLED LoopsConfirm(accept)
              /\ (pc = "c_feedback")
                    => \A feedback \in FeedbackTexts :
                          (Trim(feedback) = << >> \/ regenCalls < MaxRounds)
                              => \E conv \in TextConversations :
                                    ENABLED LoopsFeedback(feedback, conv))

\* both loops accepted after a regeneration that gave a new message and a
\* later one that recovered nothing
C34_Witness ==
    /\ rpc = "returned"
    /\ pc = "committing"
    /\ replReturn[1].accepted
    /\ regenCalls = 2
    /\ regenResult = Some(Absent)
    /\ finalMessage # initialValue


\* createCommit is about to run on a candidate that the latest exchange
\* produced (the first generation, or a regeneration that recovered a
\* message), so that streamedMessage holds the text written to the
\* terminal for this candidate
CommittingLatestCandidate ==
    /\ Running = "commit"
    /\ pc = "committing"
    /\ regenCalls = 0 \/ RecoveredMessage # Absent

\* C35: the message handed to createCommit is the text streamed to the
\* terminal for that candidate, trimmed.
C35_CommittedTextIsShownText ==
    CommittingLatestCandidate => finalMessage = Trim(streamedMessage)


\* C36: raisePRCommand leaves its nested commitCommand only when that
\* command has returned, after "Done!" or after a cancellation (empty
\* feedback, rejected prompt, rejected regeneration), and then goes on to
\* gather the changes, where the PR analysis is submitted for either
\* outcome; it is past that point only while no nested command runs. A
\* nested command that does not return has ended the process with a
\* fatal error.
C36_PrAnalysisFollowsNestedCommit ==
    /\ [][(nested /\ ~nested')
            => (/\ pc \in {"done", "cancelled"}
                /\ nestedOutcome' = pc
                /\ pc' = "p_gather")]_vars
    /\ [](nested => (cmd = "pr" /\ pc \notin {"p_gather", "p_repl", "p_creating"}))
    /\ [][(Submitted /\ pc = "p_gather")
            => (/\ ~nested
                /\ submissions'[Len(submissions')].kind = "analysis"
                /\ pc' = "analyzing")]_vars
    /\ []((nested /\ pc \in {"done", "cancelled"}) => ENABLED NestedCommitReturns)
    /\ []((pc = "p_gather" /\ nestedOutcome # "none" /\ ApiKey # Absent)
            => \A conv \in TextConversations : ENABLED PrGather(TRUE, conv))
    /\ []((nested /\ pc = "exit1") => fatal # "none")
    /\ [][(nested /\ nested' /\ pc # pc' /\ pc \in {"done", "cancelled"}) => FALSE]_vars

\* the PR analysis in flight after the nested commit was cancelled by a
\* rejected prompt or empty feedback
C36_Witness ==
    /\ cmd = "pr"
    /\ ~nested
    /\ nestedOutcome = "cancelled"
    /\ pc = "analyzing"
    /\ pending = "analysis"
    /\ commitsCreated = 0


\* C37: extractJson applied to its own result returns that result.
C37_RecoveryIsIdempotent ==
    jsonText # Absent => extractJson(jsonText[1]) = jsonText[1]


\* the process has exited or the invoked command has returned: an artifact
\* was materialized, the user cancelled, or a fatal error ended the process
TerminalOutcome ==
    \/ /\ ~nested
       /\ pc = "done"
       /\ IF cmd = "commit" THEN commitsCreated >= 1 ELSE prCreated = 1
    \/ ~nested /\ pc = "cancelled"
    \/ pc = "exit1" /\ fatal # "none"

\* C38: when everything the command awaits settles (each agent submission
\* completes, each prompt is answered, each git or gh call returns) and
\* the user stops asking for regenerations (at the latest after MaxRounds
\* of them), every run of commitCommand and of raisePRCommand reaches a
\* terminal outcome, with no submission awaited or in flight.
C38_EveryRunTerminates ==
    <>(TerminalOutcome /\ pending = "none" /\ InFlight = {})

\* a pull request created after two regenerations and a nested commit
C38_Witness ==
    /\ TerminalOutcome
    /\ cmd = "pr"
    /\ pc = "done"
    /\ nestedOutcome = "done"
    /\ regenCalls = MaxRounds
    /\ pending = "none"
    /\ InFlight = {}

====
